---- MODULE Spec2Model ----
(***************************************************************************)
(* Flight-mill processing: trough standardization of a voltage recording   *)
(* (standardize_troughs.py) and the kinematics derived from the trough     *)
(* times (flight_analysis.py).                                             *)
(*                                                                         *)
(* Units.  Voltages are read in millivolts and rounded to hundredths of a  *)
(* volt; deviations are hundredths of a volt.  Times are hundredths of a   *)
(* second (the standardized file is written with '%.2f').  Speeds and      *)
(* averages are exact rationals <<numerator, denominator>> in m/s, the     *)
(* flight path is in 1/10000 m.  Floating point is modelled by exact       *)
(* arithmetic.                                                             *)
(*                                                                         *)
(* Also modelled: graph (flight_analysis.py), the collection of the        *)
(* workers' results in diagnostic.py, and map_IDs (split_files.py).        *)
(***************************************************************************)
EXTENDS Integers, Sequences, FiniteSets, TLC

VARIABLES pc, err, report,
          voltage_column, dev_min, dev_max, sample_rate,
          time_column, trough_column, raw_flags,
          time_channel, speed_channel,
          time_n, speed_n, dist, av_speed,
          tot_duration, stats,
          time_graph, speed_graph,
          worker, qout, qbig, parent_pc, started, collected,
          set_rows, set_combos, summary_file, combos_file,
          map_pc, map_err, file_rows, row_i, before_first_event, current_bugs,
          full_data, output_file

graphVars == <<time_graph, speed_graph>>
diagVars == <<worker, qout, qbig, parent_pc, started, collected,
              set_rows, set_combos, summary_file, combos_file>>
mapVars == <<map_pc, map_err, file_rows, row_i, before_first_event, current_bugs,
             full_data, output_file>>

vars == <<pc, err, report, voltage_column, dev_min, dev_max, sample_rate,
          time_column, trough_column, raw_flags, time_channel, speed_channel,
          time_n, speed_n, dist, av_speed, tot_duration, stats,
          graphVars, diagVars, mapVars>>

(***************************************************************************)
(* Bounds of the explored inputs.                                          *)
(***************************************************************************)
MaxLen == 12
MaxWindow == 3
NumRows == 10
NumBoutTimes == 12
NumSets == 3
NumMapRows == 3

Volts == {0, 5000}
Devs == {0, 100}

ScenarioA == <<0, 0, 0, 5000, 0, 0, 0, 0, 5000, 0, 0, 0>>

\* time column of the standardized files explored by SpecKin: a duplicated
\* timestamp, sub-second, 2 s, 8 s and 30 s steps
TimeGrid == <<0, 40, 40, 1000, 1200, 1400, 1600, 2400, 2600, 5600, 5800, 6000>>

\* filtered trough times explored by SpecBouts are the sub-sequences of
\* this strictly increasing sequence
BoutGrid == <<0, 500, 1000, 4000, 4500, 5000, 8000, 14000, 44000, 134000,
              494000, 1934000, 1935000>>

\* circular flight path of the mill arm, 0.6283 m
flight_path == 6283

(***************************************************************************)
(* Helpers: sequences with Python's zero-based, negative-wrapping indices. *)
(***************************************************************************)
SeqsUpTo(S, n) == UNION {[1..k -> S] : k \in 0..n}

RECURSIVE SumSeq(_)
SumSeq(s) == IF s = <<>> THEN 0 ELSE Head(s) + SumSeq(Tail(s))

\* a valid Python index i of a list of length n: -n <= i <= n-1
ValidIndex(s, i) == -Len(s) <= i /\ i <= Len(s) - 1

\* s[i] in Python for a valid index
At(s, i) == IF i >= 0 THEN s[i + 1] ELSE s[Len(s) + i + 1]

\* round half to even of num/den, den > 0
RoundDiv(num, den) ==
    LET q == num \div den
        r == num % den
    IN  IF 2 * r < den THEN q
        ELSE IF 2 * r > den THEN q + 1
        ELSE IF q % 2 = 0 THEN q ELSE q + 1

\* round(column[i], 2): millivolts to hundredths of a volt
Round2(mv) == RoundDiv(mv, 10)

(***************************************************************************)
(* trough_standardization                                                  *)
(***************************************************************************)
\* mutant of FarBelow: the deviation test with its sign flipped, x > 2
FarBelow_SignFlipped(v, min_val, max_val) ==
    LET d == max_val - min_val
    IN  IF d > 0 THEN v - min_val > 2 * d
                 ELSE v - min_val < 2 * d

\* x < -2 with x = (v - min_val)/(max_val - min_val), max_val # min_val
FarBelow(v, min_val, max_val) ==
    LET d == max_val - min_val
    IN  IF d > 0 THEN v - min_val < (-2) * d
                 ELSE v - min_val > (-2) * d

\* mutant of Suppress: the window is one index too long
Suppress_OneMore(int_list, j, rate) ==
    [i \in 1..Len(int_list) |->
        IF j <= i - 1 /\ i - 1 <= j + rate THEN 0 ELSE int_list[i]]

\* the try/except loop: int_list[i] = 0 for i in range(j, j + sample_rate)
Suppress(int_list, j, rate) ==
    [i \in 1..Len(int_list) |->
        IF j <= i - 1 /\ i - 1 < j + rate THEN 0 ELSE int_list[i]]

\* the three lookbacks of the double-trough test, in evaluation order:
\* "hit" when one is >= int_list[j], "IndexError" when an index evaluated
\* before a hit is out of range, "clear" otherwise
\* mutant of Lookback: only the flag three places back is read
Lookback_NearOnly(int_list, j, ks) ==
    IF ~ValidIndex(int_list, j - 3) THEN "IndexError"
    ELSE IF At(int_list, j - 3) >= At(int_list, j) THEN "hit"
    ELSE "clear"

RECURSIVE Lookback(_, _, _)
Lookback(int_list, j, ks) ==
    IF ks = <<>> THEN "clear"
    ELSE IF ~ValidIndex(int_list, j - Head(ks)) THEN "IndexError"
    ELSE IF At(int_list, j - Head(ks)) >= At(int_list, j) THEN "hit"
    ELSE Lookback(int_list, j, Tail(ks))

\* mutant of IsCandidate: no rising edge needed, >= on both sides
IsCandidate_NoEdge(int_list, j) ==
    /\ At(int_list, j) >= At(int_list, j - 1)
    /\ At(int_list, j) >= At(int_list, j + 1)

IsCandidate(int_list, j) ==
    /\ At(int_list, j) > At(int_list, j - 1)
    /\ At(int_list, j) >= At(int_list, j + 1)

\* for j in range(0, len(int_list)-1), from j on
RECURSIVE TroughLoop(_, _, _, _)
TroughLoop(int_list, troughs, j, rate) ==
    IF j >= Len(int_list) - 1
    THEN [err |-> "none", troughs |-> Append(troughs, 0), int_list |-> int_list]
    ELSE IF IsCandidate(int_list, j)
         THEN LET lb == Lookback(int_list, j, <<3, 5, 7>>)
              IN  IF lb = "IndexError"
                  THEN [err |-> "IndexError", troughs |-> troughs, int_list |-> int_list]
                  ELSE IF lb = "hit"
                  THEN TroughLoop(Suppress(int_list, j, rate), Append(troughs, 0), j + 1, rate)
                  ELSE TroughLoop(int_list, Append(troughs, 1), j + 1, rate)
         ELSE TroughLoop(int_list, Append(troughs, 0), j + 1, rate)

RawFlags(volt_column, min_val, max_val) ==
    [v \in 1..Len(volt_column) |->
        IF FarBelow(volt_column[v], min_val, max_val) THEN 1 ELSE 0]

\* int_list as first built from the thresholds, before the loop rewrites it
ThresholdFlags(column, d_min, d_max) ==
    LET n == Len(column)
        volt_column == [i \in 1..n |-> Round2(column[i])]
        total == SumSeq(volt_column)
    IN  RawFlags(volt_column, RoundDiv(total - n * d_min, n),
                 RoundDiv(total + n * d_max, n))

trough_standardization(column, d_min, d_max, rate) ==
    LET n == Len(column)
        volt_column == [i \in 1..n |-> Round2(column[i])]
        total == SumSeq(volt_column)
        min_val == RoundDiv(total - n * d_min, n)
        max_val == RoundDiv(total + n * d_max, n)
    IN  IF n = 0
        THEN [err |-> "ZeroDivisionError", troughs |-> <<>>, int_list |-> <<>>]
        ELSE IF max_val = min_val
        THEN [err |-> "ZeroDivisionError", troughs |-> <<>>, int_list |-> <<>>]
        ELSE TroughLoop(RawFlags(volt_column, min_val, max_val), <<>>, 0, rate)

(***************************************************************************)
(* Exact rationals <<numerator, denominator>>, denominator > 0, reduced.   *)
(***************************************************************************)
RECURSIVE GCD(_, _)
GCD(a, b) == IF b = 0 THEN a ELSE GCD(b, a % b)

Abs(a) == IF a < 0 THEN -a ELSE a

RNorm(r) ==
    LET g == GCD(Abs(r[1]), r[2])
    IN  <<r[1] \div g, r[2] \div g>>

\* n/d for d # 0
Quot(n, d) == IF d > 0 THEN RNorm(<<n, d>>) ELSE RNorm(<<-n, -d>>)

RInt(n) == <<n, 1>>

RLt(a, b) == a[1] * b[2] < b[1] * a[2]

RAdd(a, b) ==
    LET g == GCD(a[2], b[2])
    IN  RNorm(<<a[1] * (b[2] \div g) + b[1] * (a[2] \div g), a[2] * (b[2] \div g)>>)

RECURSIVE RSum(_)
RSum(s) == IF s = <<>> THEN RInt(0) ELSE RAdd(Head(s), RSum(Tail(s)))

(***************************************************************************)
(* time_list                                                               *)
(***************************************************************************)
\* mutant of time_list: the scan starts at the second row
time_list_SkipFirst(time, channel) ==
    LET rows == SelectSeq([i \in 1..Len(channel) |-> i],
                          LAMBDA i : i > 1 /\ channel[i] = 1)
    IN  [k \in 1..Len(rows) |-> time[rows[k]]]

RECURSIVE time_list(_, _)
time_list(time, channel) ==
    IF channel = <<>> THEN <<>>
    ELSE IF Head(channel) = 1
         THEN <<Head(time)>> \o time_list(Tail(time), Tail(channel))
         ELSE time_list(Tail(time), Tail(channel))

(***************************************************************************)
(* speed_list                                                              *)
(***************************************************************************)
\* the magnetic-bearing drift threshold 0.1 and the duplicate-time sentinel
DriftSpeed == <<1, 10>>
Sentinel == RInt(9999)

\* mutant of IntervalSpeed: a repeated timestamp gives speed 0
IntervalSpeed_DupAsZero(t_prev, t_cur, circ_flight_path) ==
    IF t_cur # t_prev THEN Quot(circ_flight_path, 100 * (t_cur - t_prev))
                      ELSE RInt(0)

\* speed between two consecutive troughs (times in 1/100 s, path in 1/10000 m)
IntervalSpeed(t_prev, t_cur, circ_flight_path) ==
    IF t_cur # t_prev THEN Quot(circ_flight_path, 100 * (t_cur - t_prev))
                      ELSE Sentinel

\* mutant of SpeedCorrection: threshold 0.01 instead of 0.1
SpeedCorrection_Centi(s) == IF RLt(s, <<1, 100>>) THEN RInt(0) ELSE s

\* optional speed correction: speeds below 0.1 are set to 0
SpeedCorrection(s) == IF RLt(s, DriftSpeed) THEN RInt(0) ELSE s

\* the computed branch of speed_list, shared by its mutants
ComputedSpeeds(time, circ_flight_path) ==
    [i \in 1..Len(time) |->
        IF i = 1 THEN SpeedCorrection(RInt(0))
        ELSE SpeedCorrection(IntervalSpeed(time[i - 1], time[i], circ_flight_path))]

\* mutant of speed_list: speeds computed from two troughs on (len(time) > 1)
speed_list_TwoPeaks(time, circ_flight_path) ==
    IF Len(time) > 0
    THEN IF Len(time) > 1
         THEN [speed_channel |-> ComputedSpeeds(time, circ_flight_path), report |-> <<>>]
         ELSE [speed_channel |-> <<RInt(0)>>,
               report |-> <<"Has only one peak - impossible to calculate motion stats">>]
    ELSE [speed_channel |-> <<RInt(0)>>, report |-> <<"Channel is empty">>]

\* mutant of speed_list: the leading placeholder is left out
speed_list_NoPlaceholder(time, circ_flight_path) ==
    IF Len(time) > 0
    THEN IF Len(time) > 2
         THEN [speed_channel |-> Tail(ComputedSpeeds(time, circ_flight_path)),
               report |-> <<>>]
         ELSE [speed_channel |-> <<>>,
               report |-> <<"Has only one peak - impossible to calculate motion stats">>]
    ELSE [speed_channel |-> <<>>, report |-> <<"Channel is empty">>]

\* mutant of speed_list: the placeholder is appended only for a non-empty channel
speed_list_EmptyForEmpty(time, circ_flight_path) ==
    IF Len(time) > 0
    THEN IF Len(time) > 2
         THEN [speed_channel |-> ComputedSpeeds(time, circ_flight_path), report |-> <<>>]
         ELSE [speed_channel |-> <<RInt(0)>>,
               report |-> <<"Has only one peak - impossible to calculate motion stats">>]
    ELSE [speed_channel |-> <<>>, report |-> <<"Channel is empty">>]

speed_list(time, circ_flight_path) ==
    IF Len(time) > 0
    THEN IF Len(time) > 2
         THEN [speed_channel |-> ComputedSpeeds(time, circ_flight_path), report |-> <<>>]
         ELSE [speed_channel |-> <<RInt(0)>>,
               report |-> <<"Has only one peak - impossible to calculate motion stats">>]
    ELSE [speed_channel |-> <<RInt(0)>>, report |-> <<"Channel is empty">>]

(***************************************************************************)
(* distance                                                                *)
(***************************************************************************)
SpeedCeiling == <<14, 10>>

\* mutant of Plausible: the 1.4 ceiling is left out
Plausible_NoCeiling(s) == RLt(RInt(0), s)

Plausible(s) == RLt(RInt(0), s) /\ RLt(s, SpeedCeiling)

\* indices i in range(1, len(speed)) (zero-based) whose speed is plausible,
\* as one-based positions in ascending order
RECURSIVE PlausibleFrom(_, _)
PlausibleFrom(speed, i) ==
    IF i > Len(speed) THEN <<>>
    ELSE IF Plausible(speed[i]) THEN <<i>> \o PlausibleFrom(speed, i + 1)
         ELSE PlausibleFrom(speed, i + 1)

\* mutant of GapKept: the pair before the gap is kept, not the pair after it
RECURSIVE GapKept_KeepsEarlier(_, _)
GapKept_KeepsEarlier(time_new, j) ==
    IF j > Len(time_new) - 1 THEN <<>>
    ELSE IF time_new[j + 1] - time_new[j] <= 700
         THEN <<j>> \o GapKept_KeepsEarlier(time_new, j + 1)
         ELSE GapKept_KeepsEarlier(time_new, j + 1)

\* positions j+1 of time_new kept by the gap loop
RECURSIVE GapKept(_, _)
GapKept(time_new, j) ==
    IF j > Len(time_new) - 1 THEN <<>>
    ELSE IF time_new[j + 1] - time_new[j] <= 700
         THEN <<j + 1>> \o GapKept(time_new, j + 1)
         ELSE GapKept(time_new, j + 1)

\* mutant of distance: the mean is taken over the plausible speeds, before
\* the gap loop
distance_MeanBeforeGaps(time, speed, circ_flight_path) ==
    LET kept == PlausibleFrom(speed, 2)
        time_new == [k \in 1..Len(kept) |-> time[kept[k]]]
        speed_new == [k \in 1..Len(kept) |-> speed[kept[k]]]
        final == <<1>> \o GapKept(time_new, 1)
        time_final == [k \in 1..Len(final) |-> time_new[final[k]]]
        speed_final == [k \in 1..Len(final) |-> speed_new[final[k]]]
        total == RSum(speed_new)
        msg == "Cannot calculate distance and average speed"
    IN  IF Len(time) > 2
        THEN IF Len(time_new) > 2
             THEN [time_final |-> time_final, speed_final |-> speed_final,
                   distance |-> Len(kept) * circ_flight_path,
                   average_speed |-> RNorm(<<total[1], total[2] * Len(speed_new)>>),
                   report |-> <<>>]
             ELSE [time_final |-> <<>>, speed_final |-> <<>>,
                   distance |-> Len(kept) * circ_flight_path,
                   average_speed |-> RInt(0), report |-> <<msg>>]
        ELSE [time_final |-> <<>>, speed_final |-> <<>>, distance |-> 0,
              average_speed |-> RInt(0), report |-> <<msg>>]

distance(time, speed, circ_flight_path) ==
    LET kept == PlausibleFrom(speed, 2)
        time_new == [k \in 1..Len(kept) |-> time[kept[k]]]
        speed_new == [k \in 1..Len(kept) |-> speed[kept[k]]]
        final == <<1>> \o GapKept(time_new, 1)
        time_final == [k \in 1..Len(final) |-> time_new[final[k]]]
        speed_final == [k \in 1..Len(final) |-> speed_new[final[k]]]
        total == RSum(speed_final)
        msg == "Cannot calculate distance and average speed"
    IN  IF Len(time) > 2
        THEN IF Len(time_new) > 2
             THEN [time_final |-> time_final, speed_final |-> speed_final,
                   distance |-> Len(kept) * circ_flight_path,
                   average_speed |-> RNorm(<<total[1], total[2] * Len(speed_final)>>),
                   report |-> <<>>]
             ELSE [time_final |-> <<>>, speed_final |-> <<>>,
                   distance |-> Len(kept) * circ_flight_path,
                   average_speed |-> RInt(0), report |-> <<msg>>]
        ELSE [time_final |-> <<>>, speed_final |-> <<>>, distance |-> 0,
              average_speed |-> RInt(0), report |-> <<msg>>]

(***************************************************************************)
(* flying_bouts                                                            *)
(***************************************************************************)
\* Part 1: the markers appended by the scan of consecutive time differences
RECURSIVE GapMarkers(_, _)
GapMarkers(time, i) ==
    IF i > Len(time) - 1 THEN <<>>
    ELSE IF time[i + 1] - time[i] >= 2000
         THEN <<time[i], time[i + 1]>> \o GapMarkers(time, i + 1)
         ELSE GapMarkers(time, i + 1)

\* sorted(list(set(s)))
RECURSIVE SortedSet(_)
SortedSet(S) ==
    IF S = {} THEN <<>>
    ELSE LET m == CHOOSE x \in S : \A y \in S : x <= y
         IN  <<m>> \o SortedSet(S \ {m})

\* if bout_time[-1] != time[-1]: bout_time.append(time[-1])
CloseMarkers(bout_time, time) ==
    IF bout_time[Len(bout_time)] # time[Len(time)]
    THEN Append(bout_time, time[Len(time)]) ELSE bout_time

Elements(s) == {s[i] : i \in 1..Len(s)}

BoutMarkers(time) ==
    SortedSet(Elements(CloseMarkers(
        (IF time[2] - time[1] < 2000 THEN <<time[1]>> ELSE <<>>) \o GapMarkers(time, 1),
        time)))

\* mutant of PairedDurations: start minus end
PairedDurations_Swapped(bout_time) ==
    [j \in 1..(Len(bout_time) \div 2) |-> bout_time[2 * j - 1] - bout_time[2 * j]]

\* t_even[j] - t_odd[j] over the markers taken pairwise
PairedDurations(bout_time) ==
    [j \in 1..(Len(bout_time) \div 2) |-> bout_time[2 * j] - bout_time[2 * j - 1]]

\* mutant of MarkerDurations: the odd trailing marker is dropped
MarkerDurations_DropTrailing(markers) ==
    IF Len(markers) % 2 # 0
    THEN PairedDurations(SubSeq(markers, 1, Len(markers) - 1))
    ELSE PairedDurations(markers)

\* mutant of MarkerDurations: the trailing duration is measured from the
\* first marker
MarkerDurations_TrailingFromStart(markers) ==
    IF Len(markers) % 2 # 0
    THEN IF markers[Len(markers)] # 0
         THEN Append(PairedDurations(SubSeq(markers, 1, Len(markers) - 1)),
                     markers[Len(markers)] - markers[1])
         ELSE PairedDurations(SubSeq(markers, 1, Len(markers) - 1))
    ELSE PairedDurations(markers)

\* Part 2: an odd trailing marker is set aside as last_time and, when it is
\* not 0, measured from the last paired end marker
MarkerDurations(markers) ==
    IF Len(markers) % 2 # 0
    THEN IF markers[Len(markers)] # 0
         THEN Append(PairedDurations(SubSeq(markers, 1, Len(markers) - 1)),
                     markers[Len(markers)] - markers[Len(markers) - 1])
         ELSE PairedDurations(SubSeq(markers, 1, Len(markers) - 1))
    ELSE PairedDurations(markers)

BoutDurations(time) == MarkerDurations(BoutMarkers(time))

RECURSIVE MaxSeq(_)
MaxSeq(s) == IF Len(s) = 1 THEN s[1]
             ELSE LET m == MaxSeq(Tail(s)) IN IF Head(s) >= m THEN Head(s) ELSE m

RECURSIVE MinSeq(_)
MinSeq(s) == IF Len(s) = 1 THEN s[1]
             ELSE LET m == MinSeq(Tail(s)) IN IF Head(s) <= m THEN Head(s) ELSE m

\* the duration bucket of the if/elif chain: 1..5, or 0 for none (<= 60 s)
\* mutant of Bucket: the open-ended class above 14400 s is left out
Bucket_NoOpenEnd(d) ==
    IF d > 6000 /\ d <= 30000 THEN 1
    ELSE IF d > 30000 /\ d <= 90000 THEN 2
    ELSE IF d > 90000 /\ d <= 360000 THEN 3
    ELSE IF d > 360000 /\ d <= 1440000 THEN 4
    ELSE 0

\* mutant of Bucket: the lower limits are inclusive, the upper ones exclusive
Bucket_ClosedLower(d) ==
    IF d >= 6000 /\ d < 30000 THEN 1
    ELSE IF d >= 30000 /\ d < 90000 THEN 2
    ELSE IF d >= 90000 /\ d < 360000 THEN 3
    ELSE IF d >= 360000 /\ d < 1440000 THEN 4
    ELSE IF d >= 1440000 THEN 5
    ELSE 0

Bucket(d) ==
    IF d > 6000 /\ d <= 30000 THEN 1
    ELSE IF d > 30000 /\ d <= 90000 THEN 2
    ELSE IF d > 90000 /\ d <= 360000 THEN 3
    ELSE IF d > 360000 /\ d <= 1440000 THEN 4
    ELSE IF d > 1440000 THEN 5
    ELSE 0

InBucket(durations, b) == SelectSeq(durations, LAMBDA d : Bucket(d) = b)

ZeroStats ==
    [flight_time |-> 0, shortest_bout |-> 0, longest_bout |-> 0, fly_time |-> RInt(0),
     sum_60_300 |-> RInt(0), sum_300_900 |-> RInt(0), sum_900_3600 |-> RInt(0),
     sum_3600_14400 |-> RInt(0), sum_14400 |-> RInt(0),
     events_300 |-> 0, events_900 |-> 0, events_3600 |-> 0, events_14400 |-> 0,
     events_more_14400 |-> 0]

\* sum of duration/flight_time over one bucket, 0 for an empty bucket
BucketShare(in_bucket, flight_time) ==
    IF Len(in_bucket) > 0 THEN Quot(SumSeq(in_bucket), flight_time) ELSE RInt(0)

BoutStats(bout_durations, flight_time, recording_duration) ==
    [flight_time |-> flight_time,
     shortest_bout |-> IF Len(InBucket(bout_durations, 1)) > 0
                       THEN MinSeq(InBucket(bout_durations, 1)) ELSE 0,
     longest_bout |-> MaxSeq(bout_durations),
     fly_time |-> Quot(flight_time, recording_duration),
     sum_60_300 |-> BucketShare(InBucket(bout_durations, 1), flight_time),
     sum_300_900 |-> BucketShare(InBucket(bout_durations, 2), flight_time),
     sum_900_3600 |-> BucketShare(InBucket(bout_durations, 3), flight_time),
     sum_3600_14400 |-> BucketShare(InBucket(bout_durations, 4), flight_time),
     sum_14400 |-> BucketShare(InBucket(bout_durations, 5), flight_time),
     events_300 |-> Len(InBucket(bout_durations, 1)),
     events_900 |-> Len(InBucket(bout_durations, 2)),
     events_3600 |-> Len(InBucket(bout_durations, 3)),
     events_14400 |-> Len(InBucket(bout_durations, 4)),
     events_more_14400 |-> Len(InBucket(bout_durations, 5))]

flying_bouts(time, speed, recording_duration) ==
    IF Len(time) > 2
    THEN IF recording_duration = 0
         THEN [err |-> "ZeroDivisionError", stats |-> ZeroStats, report |-> <<>>]
         ELSE [err |-> "none",
               stats |-> BoutStats(BoutDurations(time), SumSeq(BoutDurations(time)),
                                   recording_duration),
               report |-> <<>>]
    ELSE [err |-> "none", stats |-> ZeroStats,
          report |-> <<"Channel has only one peak - cannot perform calculation">>]

(***************************************************************************)
(* The scripts: standardize_troughs.py writes the standardized file, the   *)
(* main loop of flight_analysis.py reads it and derives the statistics.    *)
(***************************************************************************)
recording_duration(times) == times[Len(times)] - times[1]

(***************************************************************************)
(* graph                                                                   *)
(***************************************************************************)
\* the points appended by the loop for i in range(0, len(time)-1), from
\* position i on: the pair i and, when the next time is more than 20 s
\* later, the two zero-speed points one second after and one second before
RECURSIVE GraphPoints(_, _, _)
GraphPoints(time, speed, i) ==
    IF i > Len(time) - 1 THEN <<>>
    ELSE IF time[i + 1] - time[i] > 2000
         THEN <<[t |-> time[i], s |-> speed[i]],
                [t |-> time[i] + 100, s |-> RInt(0)],
                [t |-> time[i + 1] - 100, s |-> RInt(0)]>>
              \o GraphPoints(time, speed, i + 1)
         ELSE <<[t |-> time[i], s |-> speed[i]]>> \o GraphPoints(time, speed, i + 1)

\* both lists end with an appended 0
graph(time, speed) ==
    [time_new |-> [k \in 1..Len(GraphPoints(time, speed, 1)) |->
                      GraphPoints(time, speed, 1)[k].t] \o <<0>>,
     speed_new |-> [k \in 1..Len(GraphPoints(time, speed, 1)) |->
                      GraphPoints(time, speed, 1)[k].s] \o <<RInt(0)>>]

\* main loop: time_graph, speed_graph = graph(time_n, speed_n)
Graph ==
    /\ pc = "done"
    /\ time_graph' = graph(time_n, speed_n).time_new
    /\ speed_graph' = graph(time_n, speed_n).speed_new
    /\ pc' = "summary"
    /\ UNCHANGED <<err, report, voltage_column, dev_min, dev_max, sample_rate,
                   time_column, trough_column, raw_flags, time_channel,
                   speed_channel, time_n, speed_n, dist, av_speed, tot_duration,
                   stats>>
    /\ UNCHANGED <<diagVars, mapVars>>

\* the parts of the system that a specification leaves at rest
GraphIdle == time_graph = <<>> /\ speed_graph = <<>>
DiagIdle ==
    /\ worker = <<>> /\ qout = <<>> /\ qbig = <<>>
    /\ parent_pc = "off" /\ started = 0 /\ collected = 0
    /\ set_rows = 0 /\ set_combos = 0
    /\ summary_file = <<>> /\ combos_file = <<>>
MapIdle ==
    /\ map_pc = "off" /\ map_err = "none" /\ file_rows = <<>> /\ row_i = 0
    /\ before_first_event = TRUE /\ current_bugs = <<>>
    /\ full_data = <<>> /\ output_file = <<>>

Standardize ==
    /\ pc = "standardize"
    /\ LET r == trough_standardization(voltage_column, dev_min, dev_max, sample_rate)
       IN  IF r.err # "none"
           THEN /\ pc' = "crashed"
                /\ err' = r.err
                /\ UNCHANGED <<trough_column, raw_flags>>
           ELSE /\ pc' = "time_list"
                /\ trough_column' = r.troughs
                /\ raw_flags' = r.int_list
                /\ UNCHANGED err
    /\ UNCHANGED <<report, voltage_column, dev_min, dev_max, sample_rate, time_column,
                   time_channel, speed_channel, time_n, speed_n, dist, av_speed,
                   tot_duration, stats>>
    /\ UNCHANGED <<graphVars, diagVars, mapVars>>

TimeList ==
    /\ pc = "time_list"
    /\ tot_duration' = recording_duration(time_column)
    /\ time_channel' = time_list(time_column, trough_column)
    /\ pc' = "speed_list"
    /\ UNCHANGED <<err, report, voltage_column, dev_min, dev_max, sample_rate,
                   time_column, trough_column, raw_flags, speed_channel,
                   time_n, speed_n, dist, av_speed, stats>>
    /\ UNCHANGED <<graphVars, diagVars, mapVars>>

SpeedList ==
    /\ pc = "speed_list"
    /\ LET r == speed_list(time_channel, flight_path)
       IN  /\ speed_channel' = r.speed_channel
           /\ report' = report \o r.report
    /\ pc' = "distance"
    /\ UNCHANGED <<err, voltage_column, dev_min, dev_max, sample_rate,
                   time_column, trough_column, raw_flags, time_channel,
                   time_n, speed_n, dist, av_speed, tot_duration, stats>>
    /\ UNCHANGED <<graphVars, diagVars, mapVars>>

Distance ==
    /\ pc = "distance"
    /\ LET r == distance(time_channel, speed_channel, flight_path)
       IN  /\ time_n' = r.time_final
           /\ speed_n' = r.speed_final
           /\ dist' = r.distance
           /\ av_speed' = r.average_speed
           /\ report' = report \o r.report
    /\ pc' = "flying_bouts"
    /\ UNCHANGED <<err, voltage_column, dev_min, dev_max, sample_rate,
                   time_column, trough_column, raw_flags, time_channel,
                   speed_channel, tot_duration, stats>>
    /\ UNCHANGED <<graphVars, diagVars, mapVars>>

FlyingBouts ==
    /\ pc = "flying_bouts"
    /\ LET r == flying_bouts(time_n, speed_n, tot_duration)
       IN  /\ stats' = r.stats
           /\ err' = r.err
           /\ report' = report \o r.report
           /\ pc' = IF r.err = "none" THEN "done" ELSE "crashed"
    /\ UNCHANGED <<voltage_column, dev_min, dev_max, sample_rate,
                   time_column, trough_column, raw_flags, time_channel,
                   speed_channel, time_n, speed_n, dist, av_speed, tot_duration>>
    /\ UNCHANGED <<graphVars, diagVars, mapVars>>

\* nothing computed yet
Blank ==
    /\ err = "none" /\ report = <<>>
    /\ raw_flags = <<>>
    /\ time_channel = <<>> /\ speed_channel = <<>>
    /\ time_n = <<>> /\ speed_n = <<>>
    /\ dist = 0 /\ av_speed = RInt(0)
    /\ tot_duration = 0 /\ stats = ZeroStats

\* a voltage recording sampled once per second, about to be standardized
Init ==
    /\ pc = "standardize"
    /\ voltage_column \in SeqsUpTo(Volts, MaxLen)
    /\ dev_min \in Devs
    /\ dev_max \in Devs
    /\ sample_rate \in 0..MaxWindow
    /\ time_column = [i \in 1..Len(voltage_column) |-> (i - 1) * 100]
    /\ trough_column = <<>>
    /\ Blank
    /\ GraphIdle /\ DiagIdle /\ MapIdle

Next == Standardize \/ TimeList \/ SpeedList \/ Distance \/ FlyingBouts \/ Graph

Spec == Init /\ [][Next]_vars

\* a standardized file of NumRows rows, about to be analysed
InitKin ==
    /\ pc = "time_list"
    /\ voltage_column = <<>> /\ dev_min = 0 /\ dev_max = 0 /\ sample_rate = 0
    /\ time_column = SubSeq(TimeGrid, 1, NumRows)
    /\ Blank
    /\ GraphIdle /\ DiagIdle /\ MapIdle
    /\ \E flags \in [1..NumRows -> {0, 1}] : trough_column = flags

NextKin == TimeList \/ SpeedList \/ Distance \/ FlyingBouts \/ Graph

SpecKin == InitKin /\ [][NextKin]_vars

\* filtered trough times handed to flying_bouts directly: any sub-sequence
\* of the first NumBoutTimes entries of BoutGrid, each with a plausible speed
RECURSIVE Picked(_, _)
Picked(grid, flags) ==
    IF grid = <<>> THEN <<>>
    ELSE IF Head(flags) = 1 THEN <<Head(grid)>> \o Picked(Tail(grid), Tail(flags))
         ELSE Picked(Tail(grid), Tail(flags))

InitBouts ==
    /\ pc = "flying_bouts"
    /\ voltage_column = <<>> /\ dev_min = 0 /\ dev_max = 0 /\ sample_rate = 0
    /\ time_column = <<>> /\ trough_column = <<>>
    /\ err = "none" /\ report = <<>> /\ raw_flags = <<>>
    /\ time_channel = <<>> /\ speed_channel = <<>>
    /\ dist = 0 /\ av_speed = RInt(0) /\ stats = ZeroStats
    /\ tot_duration = BoutGrid[NumBoutTimes] - BoutGrid[1]
    /\ GraphIdle /\ DiagIdle /\ MapIdle
    /\ \E flags \in [1..NumBoutTimes -> {0, 1}] :
          /\ time_n = Picked(SubSeq(BoutGrid, 1, NumBoutTimes), flags)
          /\ speed_n = [i \in 1..Len(time_n) |-> Quot(flight_path, 100 * 200)]

NextBouts == FlyingBouts \/ Graph

SpecBouts == InitBouts /\ [][NextBouts]_vars

(***************************************************************************)
(* diagnostic.py: one worker process per recording set, each putting its   *)
(* summary rows on qout and its combos on qbig at the end of diagnose; the *)
(* parent starts the workers, then collects one item per queue per worker. *)
(* A queue item is named by the set (worker) that produced it.             *)
(***************************************************************************)
pipeVars == <<pc, err, report, voltage_column, dev_min, dev_max, sample_rate,
              time_column, trough_column, raw_flags, time_channel, speed_channel,
              time_n, speed_n, dist, av_speed, tot_duration, stats>>

\* for set_list in sets: p = mp.Process(target=diagnose, ...); p.start()
StartJob ==
    /\ parent_pc = "start"
    /\ started < NumSets
    /\ worker' = [worker EXCEPT ![started + 1] = "running"]
    /\ started' = started + 1
    /\ parent_pc' = IF started + 1 = NumSets THEN "get_rows" ELSE "start"
    /\ UNCHANGED <<qout, qbig, collected, set_rows, set_combos, summary_file,
                   combos_file, pipeVars, graphVars, mapVars>>

\* diagnose runs to its end: q1.put(trows)
Diagnose(w) ==
    /\ worker[w] = "running"
    /\ qout' = Append(qout, w)
    /\ worker' = [worker EXCEPT ![w] = "put_combos"]
    /\ UNCHANGED <<qbig, parent_pc, started, collected, set_rows, set_combos,
                   summary_file, combos_file, pipeVars, graphVars, mapVars>>

\* q2.put(big_list), the last statement of diagnose
PutCombos(w) ==
    /\ worker[w] = "put_combos"
    /\ qbig' = Append(qbig, w)
    /\ worker' = [worker EXCEPT ![w] = "ended"]
    /\ UNCHANGED <<qout, parent_pc, started, collected, set_rows, set_combos,
                   summary_file, combos_file, pipeVars, graphVars, mapVars>>

\* an exception in the body of diagnose ends the process before the puts
Fail(w) ==
    /\ worker[w] = "running"
    /\ worker' = [worker EXCEPT ![w] = "failed"]
    /\ UNCHANGED <<qout, qbig, parent_pc, started, collected, set_rows, set_combos,
                   summary_file, combos_file, pipeVars, graphVars, mapVars>>

\* set_rows = qout.get(), blocking while the queue is empty
GetRows ==
    /\ parent_pc = "get_rows"
    /\ qout # <<>>
    /\ set_rows' = Head(qout)
    /\ qout' = Tail(qout)
    /\ parent_pc' = "get_combos"
    /\ UNCHANGED <<worker, qbig, started, collected, set_combos, summary_file,
                   combos_file, pipeVars, graphVars, mapVars>>

\* mutant of GetCombos: the item is read but left on the queue
GetCombos_Peek ==
    /\ parent_pc = "get_combos"
    /\ qbig # <<>>
    /\ set_combos' = Head(qbig)
    /\ parent_pc' = "write_summary"
    /\ UNCHANGED <<worker, qout, qbig, started, collected, set_rows, summary_file,
                   combos_file, pipeVars, graphVars, mapVars>>

\* set_combos = qbig.get(), blocking while the queue is empty
GetCombos ==
    /\ parent_pc = "get_combos"
    /\ qbig # <<>>
    /\ set_combos' = Head(qbig)
    /\ qbig' = Tail(qbig)
    /\ parent_pc' = "write_summary"
    /\ UNCHANGED <<worker, qout, started, collected, set_rows, summary_file,
                   combos_file, pipeVars, graphVars, mapVars>>

\* write_summary_file(outpath, set_rows)
WriteSummary ==
    /\ parent_pc = "write_summary"
    /\ summary_file' = Append(summary_file, set_rows)
    /\ parent_pc' = "write_combos"
    /\ UNCHANGED <<worker, qout, qbig, started, collected, set_rows, set_combos,
                   combos_file, pipeVars, graphVars, mapVars>>

\* write_combos_file(outpath, set_combos), then the next process in jobs
WriteCombos ==
    /\ parent_pc = "write_combos"
    /\ combos_file' = Append(combos_file, set_combos)
    /\ collected' = collected + 1
    /\ parent_pc' = IF collected + 1 = NumSets THEN "exit" ELSE "get_rows"
    /\ UNCHANGED <<worker, qout, qbig, started, set_rows, set_combos,
                   summary_file, pipeVars, graphVars, mapVars>>

\* the analysis pipeline at rest
PipelineIdle ==
    /\ pc = "off"
    /\ voltage_column = <<>> /\ dev_min = 0 /\ dev_max = 0 /\ sample_rate = 0
    /\ time_column = <<>> /\ trough_column = <<>>
    /\ Blank

\* both output files opened empty, both queues created, no job started
InitDiag ==
    /\ worker = [w \in 1..NumSets |-> "idle"]
    /\ qout = <<>> /\ qbig = <<>>
    /\ parent_pc = "start" /\ started = 0 /\ collected = 0
    /\ set_rows = 0 /\ set_combos = 0
    /\ summary_file = <<>> /\ combos_file = <<>>
    /\ PipelineIdle /\ GraphIdle /\ MapIdle

Parent == StartJob \/ GetRows \/ GetCombos \/ WriteSummary \/ WriteCombos

NextDiag ==
    \/ Parent
    \/ \E w \in 1..NumSets : Diagnose(w) \/ PutCombos(w) \/ Fail(w)

SpecDiag == InitDiag /\ [][NextDiag]_vars

\* the parent and every started worker keep running
FairSpecDiag ==
    /\ SpecDiag
    /\ WF_vars(Parent)
    /\ \A w \in 1..NumSets : WF_vars(Diagnose(w) \/ PutCombos(w) \/ Fail(w))

(***************************************************************************)
(* split_files.py: define_dicts builds the two dictionaries from the       *)
(* datasheet, map_IDs walks the rows of one recording file and lists the   *)
(* bug in each of the four channels.  One set number and one channel       *)
(* letter, so a dictionary key is the channel number or the ID alone.  A   *)
(* marker is the sequence of its characters; TBF is the row's index.       *)
(***************************************************************************)
Datasheet ==
    << [ID |-> 1, died |-> FALSE, channel |-> 1],
       [ID |-> 2, died |-> FALSE, channel |-> 2],
       [ID |-> 7, died |-> TRUE,  channel |-> 2],
       [ID |-> 3, died |-> FALSE, channel |-> 3],
       [ID |-> 4, died |-> FALSE, channel |-> 4],
       [ID |-> 5, died |-> FALSE, channel |-> 1],
       [ID |-> 6, died |-> FALSE, channel |-> 3] >>

Alive == {k \in 1..Len(Datasheet) : ~Datasheet[k].died}

\* first_flight_dict[channel] = ID of the first living row of that channel
first_flight_dict ==
    [c \in {Datasheet[k].channel : k \in Alive} |->
        Datasheet[CHOOSE k \in Alive :
                    /\ Datasheet[k].channel = c
                    /\ \A m \in Alive : Datasheet[m].channel = c => k <= m].ID]

\* current_flight_dict[ID] = channel of the first living row of that ID
current_flight_dict ==
    [b \in {Datasheet[k].ID : k \in Alive} |->
        Datasheet[CHOOSE k \in Alive :
                    /\ Datasheet[k].ID = b
                    /\ \A m \in Alive : Datasheet[m].ID = b => k <= m].channel]

DigitChars == {"0", "1", "2", "3", "4", "5", "6", "7", "8", "9"}
DigitValue(ch) ==
    CASE ch = "0" -> 0 [] ch = "1" -> 1 [] ch = "2" -> 2 [] ch = "3" -> 3
      [] ch = "4" -> 4 [] ch = "5" -> 5 [] ch = "6" -> 6 [] ch = "7" -> 7
      [] ch = "8" -> 8 [] ch = "9" -> 9

\* int of the digits from position i to the end of the run
RECURSIVE DigitRun(_, _, _)
DigitRun(marker, i, acc) ==
    IF i > Len(marker) \/ marker[i] \notin DigitChars THEN acc
    ELSE DigitRun(marker, i + 1, 10 * acc + DigitValue(marker[i]))

\* int(re.search(r'\d+', marker).group()); -1 when the search finds nothing
SearchNumber(marker) ==
    LET at == {i \in 1..Len(marker) : marker[i] \in DigitChars}
    IN  IF at = {} THEN -1
        ELSE DigitRun(marker, CHOOSE i \in at : \A k \in at : i <= k, 0)

\* the event number after the false event marker is reset
EventNum(row) ==
    IF row.event_num = 1 /\ row.event_happened = 3 THEN 0 ELSE row.event_num

\* mutant of Replace: the other channels fall back to their first occupants
Replace_ResetOthers(bugs, new_bug) ==
    [c \in 1..4 |-> IF c = current_flight_dict[new_bug] THEN new_bug
                    ELSE first_flight_dict[c]]

\* current_bugs['channel%s'%new_channel] = new_bug
Replace(bugs, new_bug) ==
    [bugs EXCEPT ![current_flight_dict[new_bug]] = new_bug]

\* the rows a recording file is made of
RowKinds ==
    { [header |-> TRUE,  event_num |-> 0, event_happened |-> 0, event_marker |-> <<>>],
      [header |-> FALSE, event_num |-> 0, event_happened |-> 0, event_marker |-> <<>>],
      [header |-> FALSE, event_num |-> 1, event_happened |-> 3, event_marker |-> <<>>],
      [header |-> FALSE, event_num |-> 1, event_happened |-> 3, event_marker |-> <<"b", "5">>],
      [header |-> FALSE, event_num |-> 2, event_happened |-> 0, event_marker |-> <<>>],
      [header |-> FALSE, event_num |-> 2, event_happened |-> 0, event_marker |-> <<"b", "5">>],
      [header |-> FALSE, event_num |-> 2, event_happened |-> 0, event_marker |-> <<"6">>],
      [header |-> FALSE, event_num |-> 3, event_happened |-> 0, event_marker |-> <<"2", "b">>],
      [header |-> FALSE, event_num |-> 2, event_happened |-> 0, event_marker |-> <<"x">>],
      [header |-> FALSE, event_num |-> 2, event_happened |-> 0, event_marker |-> <<"9">>] }

MapVarsButRow == <<file_rows, before_first_event, current_bugs, full_data, output_file>>

\* one iteration of `for row in reader`
MapRow ==
    /\ map_pc = "rows"
    /\ row_i <= Len(file_rows)
    /\ LET row     == file_rows[row_i]
           new_bug == SearchNumber(row.event_marker)
       IN  IF row.header
           THEN /\ row_i' = row_i + 1
                /\ UNCHANGED <<map_pc, map_err, MapVarsButRow>>
           ELSE IF before_first_event
           THEN /\ current_bugs' = [c \in 1..4 |-> first_flight_dict[c]]
                /\ before_first_event' = FALSE
                /\ full_data' = Append(full_data,
                                  [TBF |-> row_i, event_num |-> EventNum(row),
                                   bugs |-> current_bugs'])
                /\ row_i' = row_i + 1
                /\ UNCHANGED <<map_pc, map_err, file_rows, output_file>>
           ELSE IF EventNum(row) # 0
           THEN IF row.event_marker = <<>>
                THEN /\ row_i' = row_i + 1
                     /\ UNCHANGED <<map_pc, map_err, MapVarsButRow>>
                ELSE IF new_bug = -1
                THEN /\ map_pc' = "crashed"
                     /\ map_err' = "AttributeError"
                     /\ UNCHANGED <<row_i, MapVarsButRow>>
                ELSE IF new_bug \notin DOMAIN current_flight_dict
                THEN /\ map_pc' = "crashed"
                     /\ map_err' = "KeyError"
                     /\ UNCHANGED <<row_i, MapVarsButRow>>
                ELSE /\ current_bugs' = Replace(current_bugs, new_bug)
                     /\ full_data' = Append(full_data,
                                       [TBF |-> row_i, event_num |-> EventNum(row) - 1,
                                        bugs |-> current_bugs'])
                     /\ row_i' = row_i + 1
                     /\ UNCHANGED <<map_pc, map_err, file_rows, before_first_event,
                                    output_file>>
           ELSE /\ full_data' = Append(full_data,
                                  [TBF |-> row_i, event_num |-> EventNum(row),
                                   bugs |-> current_bugs])
                /\ row_i' = row_i + 1
                /\ UNCHANGED <<map_pc, map_err, file_rows, before_first_event,
                               current_bugs, output_file>>
    /\ UNCHANGED <<pipeVars, graphVars, diagVars>>

\* after the loop: the writer takes its field names from the last new_row,
\* which is unbound when the file held no data row
WriteFile ==
    /\ map_pc = "rows"
    /\ row_i > Len(file_rows)
    /\ IF \A k \in 1..Len(file_rows) : file_rows[k].header
       THEN /\ map_pc' = "crashed"
            /\ map_err' = "NameError"
            /\ UNCHANGED output_file
       ELSE /\ map_pc' = "written"
            /\ output_file' = full_data
            /\ UNCHANGED map_err
    /\ UNCHANGED <<file_rows, row_i, before_first_event, current_bugs, full_data>>
    /\ UNCHANGED <<pipeVars, graphVars, diagVars>>

FilesOfRows ==
    UNION {[1..n -> RowKinds] : n \in 1..NumMapRows}

InitMap ==
    /\ file_rows \in FilesOfRows
    /\ map_pc = "rows" /\ map_err = "none" /\ row_i = 1
    /\ before_first_event = TRUE
    /\ current_bugs = <<>> /\ full_data = <<>> /\ output_file = <<>>
    /\ PipelineIdle /\ GraphIdle /\ DiagIdle

NextMap == MapRow \/ WriteFile

SpecMap == InitMap /\ [][NextMap]_vars

(***************************************************************************)
(* Claims                                                                  *)
(***************************************************************************)
AfterStandardize == pc \in {"time_list", "speed_list", "distance", "flying_bouts", "done"}
AfterSpeedList == pc \in {"distance", "flying_bouts", "done"}
AfterDistance == pc \in {"flying_bouts", "done"}
StandardizeReturned == pc # "standardize"

\* C1 (as claimed): for every voltage sequence of length n >= 1 and every
\* dev_min, dev_max and merge window, trough_standardization returns
\* normally a 0/1 sequence of length n whose last element is 0.
C1_ReturnsSameLengthTrailingZero ==
    (StandardizeReturned /\ Len(voltage_column) >= 1) =>
        /\ pc # "crashed"
        /\ err = "none"
        /\ Len(trough_column) = Len(voltage_column)
        /\ \A i \in 1..Len(trough_column) : trough_column[i] \in {0, 1}
        /\ trough_column[Len(trough_column)] = 0

IsScenarioA == voltage_column = ScenarioA /\ dev_min = 100 /\ dev_max = 100

\* C2 (as claimed): on scenario A (voltages 0 with spikes of 5 V at indices
\* 3 and 8, dev_min = dev_max = 1) exactly the indices 3 and 8 are marked
\* as troughs and the speed derived between them is arc_length/5.
C2_ScenarioA_TwoTroughs ==
    IsScenarioA =>
        /\ StandardizeReturned =>
              /\ err = "none"
              /\ trough_column = [i \in 1..Len(ScenarioA) |-> IF i \in {4, 9} THEN 1 ELSE 0]
        /\ AfterSpeedList =>
              /\ time_channel = <<300, 800>>
              /\ speed_channel[Len(speed_channel)] = Quot(flight_path, 100 * 500)

\* C2 (amended): on scenario A no sample lies far below the band, so no
\* trough is marked: the output is twelve 0s, no trough time is extracted
\* and speed_list returns the placeholder [0].
C2_ScenarioA_NoTrough ==
    IsScenarioA =>
        /\ StandardizeReturned =>
              /\ err = "none"
              /\ trough_column = [i \in 1..Len(ScenarioA) |-> 0]
        /\ AfterSpeedList =>
              /\ time_channel = <<>>
              /\ speed_channel = <<RInt(0)>>

C2_Witness == IsScenarioA /\ pc = "distance" /\ sample_rate > 0

AllZero(st) ==
    /\ st.flight_time = 0 /\ st.shortest_bout = 0 /\ st.longest_bout = 0
    /\ st.fly_time = RInt(0)
    /\ st.sum_60_300 = RInt(0) /\ st.sum_300_900 = RInt(0)
    /\ st.sum_900_3600 = RInt(0) /\ st.sum_3600_14400 = RInt(0)
    /\ st.sum_14400 = RInt(0)
    /\ st.events_300 = 0 /\ st.events_900 = 0 /\ st.events_3600 = 0
    /\ st.events_14400 = 0 /\ st.events_more_14400 = 0

\* C3: with fewer than 3 trough times speed_list, distance and
\* flying_bouts return normally: speed_list gives the placeholder [0],
\* distance gives empty lists with distance 0 and average speed 0, and
\* flying_bouts (given fewer than 3 filtered times) gives all-zero statistics.
C3_FewerThanThreeDegenerate ==
    /\ pc # "crashed" /\ err = "none"
    /\ (AfterSpeedList /\ Len(time_channel) < 3) => speed_channel = <<RInt(0)>>
    /\ (AfterDistance /\ Len(time_channel) < 3) =>
          time_n = <<>> /\ speed_n = <<>> /\ dist = 0 /\ av_speed = RInt(0)
    /\ (pc = "done" /\ Len(time_n) < 3) => AllZero(stats)

C3_Witness ==
    /\ pc = "done"
    /\ Len(time_channel) = 2
    /\ speed_channel = <<RInt(0)>>
    /\ AllZero(stats)

\* spans (last minus first time) of the maximal clusters of consecutive
\* times whose successive gaps are all < 20 s, from position i on, the
\* current cluster having begun at position start
RECURSIVE ClusterSpansFrom(_, _, _)
ClusterSpansFrom(time, i, start) ==
    IF i = Len(time) THEN <<time[i] - time[start]>>
    ELSE IF time[i + 1] - time[i] < 2000
         THEN ClusterSpansFrom(time, i + 1, start)
         ELSE <<time[i] - time[start]>> \o ClusterSpansFrom(time, i + 1, i + 1)

NonZero(s) == SelectSeq(s, LAMBDA d : d # 0)

\* C4 (as claimed): for >= 3 strictly increasing filtered times the bout
\* durations are the spans of the maximal clusters with gaps < 20 s (a
\* single isolated event spanning 0), and flight_time is their sum.
C4_BoutsAreClusterSpans ==
    (pc = "done" /\ Len(time_n) >= 3) =>
        /\ NonZero(BoutDurations(time_n)) = NonZero(ClusterSpansFrom(time_n, 1, 1))
        /\ stats.flight_time = SumSeq(ClusterSpansFrom(time_n, 1, 1))

Survivors == Len(PlausibleFrom(speed_channel, 2))

\* C5 (as claimed): with >= 3 trough times of which fewer than 3 (time,
\* speed) pairs pass 0 < speed < 1.4, distance returns total distance 0
\* and average speed 0.
C5_TooFewPlausibleGivesZero ==
    (AfterDistance /\ Len(time_channel) >= 3 /\ Survivors < 3) =>
        dist = 0 /\ av_speed = RInt(0)

\* C6 (as claimed): whenever flying_bouts receives fewer than 3 filtered
\* times and returns all zeros, the distance and the average speed of the
\* recording are 0 as well.
C6_DegradedSummaryAllZero ==
    (pc = "done" /\ Len(time_n) < 3 /\ AllZero(stats)) =>
        dist = 0 /\ av_speed = RInt(0)

\* C7 (as claimed): on an empty or single-element voltage sequence
\* trough_standardization does not crash and reports insufficient data
\* instead of returning an event sequence.
C7_ShortInputReported ==
    (StandardizeReturned /\ Len(voltage_column) <= 1) =>
        /\ pc # "crashed"
        /\ err = "none"
        /\ trough_column = <<>>
        /\ report # <<>>

\* C8 (as claimed): the sequence returned by speed_list has the length of
\* the trough-time sequence it was given, for every length.
C8_SpeedLengthEqualsTimes ==
    AfterSpeedList => Len(speed_channel) = Len(time_channel)

\* C8 (amended): the lengths agree for 1 and for >= 3 trough times; for 0
\* and for 2 trough times speed_list returns the one-element placeholder.
C8_SpeedLengthExceptZeroAndTwo ==
    AfterSpeedList =>
        Len(speed_channel) =
            IF Len(time_channel) \in {0, 2} THEN 1 ELSE Len(time_channel)

C8_Witness ==
    /\ pc = "distance"
    /\ Len(time_channel) = 2
    /\ Len(speed_channel) = 1

Reported(msg) == \E i \in 1..Len(report) : report[i] = msg

RawSpeed(i) ==
    IF time_channel[i] = time_channel[i - 1] THEN RInt(9999)
    ELSE Quot(flight_path, 100 * (time_channel[i] - time_channel[i - 1]))

\* C10: for >= 3 trough times every interval speed below 0.1 is exactly 0
\* in the output of speed_list: no element is negative or strictly between
\* 0 and 0.1, and the 9999 sentinel and the speeds >= 0.1 are unchanged.
C10_SpeedsBelowDriftAreZero ==
    (AfterSpeedList /\ Len(time_channel) >= 3) =>
        /\ Len(speed_channel) = Len(time_channel)
        /\ \A i \in 1..Len(speed_channel) :
              /\ ~RLt(speed_channel[i], RInt(0))
              /\ ~(RLt(RInt(0), speed_channel[i]) /\ RLt(speed_channel[i], <<1, 10>>))
        /\ \A i \in 2..Len(speed_channel) :
              IF RLt(RawSpeed(i), <<1, 10>>)
              THEN speed_channel[i] = RInt(0)
              ELSE speed_channel[i] = RawSpeed(i)

C10_Witness ==
    /\ pc = "distance"
    /\ Len(time_channel) >= 3
    /\ \E i \in 2..Len(time_channel) :
          /\ RLt(RInt(0), RawSpeed(i)) /\ RLt(RawSpeed(i), <<1, 10>>)
          /\ speed_channel[i] = RInt(0)
    /\ \E i \in 2..Len(time_channel) : speed_channel[i] = RInt(9999)
    /\ \E i \in 2..Len(time_channel) :
          speed_channel[i] # RInt(9999) /\ ~RLt(speed_channel[i], <<1, 10>>)

\* the (time, speed) pairs of the trough list, as positions i >= 2, whose
\* speed lies in the open range (0, 1.4)
InRange(s) == RLt(RInt(0), s) /\ RLt(s, <<14, 10>>)
InRangePositions == {i \in 2..Len(speed_channel) : InRange(speed_channel[i])}

\* C11: with >= 3 trough times the total distance is the flight path times
\* the number of positions i >= 1 with 0 < speed[i] < 1.4, and every
\* retained (time, speed) pair is one of those: a pair with speed 0, >= 1.4
\* or 9999 is neither retained nor counted.
C11_DistanceCountsPlausiblePairs ==
    (AfterDistance /\ Len(time_channel) >= 3) =>
        /\ dist = flight_path * Cardinality(InRangePositions)
        /\ Len(speed_n) = Len(time_n)
        /\ \A k \in 1..Len(time_n) :
              /\ InRange(speed_n[k])
              /\ \E i \in InRangePositions :
                    time_n[k] = time_channel[i] /\ speed_n[k] = speed_channel[i]

C11_Witness ==
    /\ pc = "flying_bouts"
    /\ Len(time_n) >= 3
    /\ dist = 3 * flight_path
    /\ \E i \in 2..Len(speed_channel) :
          ~RLt(speed_channel[i], <<14, 10>>) /\ speed_channel[i] # RInt(9999)
    /\ \E i \in 2..Len(speed_channel) : speed_channel[i] = RInt(9999)
    /\ \E i \in 2..Len(speed_channel) : speed_channel[i] = RInt(0)

\* flying_bouts has returned its statistics for >= 3 filtered times
BoutsReturned == pc = "done" /\ err = "none" /\ Len(time_n) >= 3
OverSixty(s) == SelectSeq(s, LAMBDA d : d > 6000)
UpToSixty(s) == SelectSeq(s, LAMBDA d : d <= 6000)

\* C12 (as claimed): shortest_bout is the minimum over all bout durations
\* above 60 s, and is 0 only when no bout duration exceeds 60 s.
C12_ShortestIsMinOverSixty ==
    BoutsReturned =>
        stats.shortest_bout =
            IF Len(OverSixty(BoutDurations(time_n))) > 0
            THEN MinSeq(OverSixty(BoutDurations(time_n))) ELSE 0

\* C14: every bout duration computed by flying_bouts is non-negative, so
\* the longest bout is non-negative and no longer than the flight time.
C14_DurationsNonNegative ==
    BoutsReturned =>
        /\ \A i \in 1..Len(BoutDurations(time_n)) : BoutDurations(time_n)[i] >= 0
        /\ stats.longest_bout >= 0
        /\ stats.flight_time >= stats.longest_bout

C14_Witness ==
    /\ BoutsReturned
    /\ Len(BoutMarkers(time_n)) % 2 = 1
    /\ Len(BoutDurations(time_n)) >= 3
    /\ stats.flight_time > stats.longest_bout

FiveShares ==
    RAdd(stats.sum_60_300, RAdd(stats.sum_300_900, RAdd(stats.sum_900_3600,
         RAdd(stats.sum_3600_14400, stats.sum_14400))))

\* C15: the five bucket time-fractions add up to at most 1, and to exactly
\* 1 minus the share of flight_time held by bouts of 60 s or less.
C15_SharesSumToLongShare ==
    BoutsReturned =>
        /\ ~RLt(RInt(1), FiveShares)
        /\ FiveShares = Quot(stats.flight_time - SumSeq(UpToSixty(BoutDurations(time_n))),
                             stats.flight_time)

C15_Witness ==
    /\ BoutsReturned
    /\ Len(UpToSixty(BoutDurations(time_n))) > 0
    /\ stats.events_300 + stats.events_900 + stats.events_3600 + stats.events_14400 > 0
    /\ stats.events_more_14400 > 0
    /\ RLt(FiveShares, RInt(1))

\* positions of the durations in the half-open range (lo, hi]
InRangeCount(s, lo, hi) == Cardinality({i \in 1..Len(s) : s[i] > lo /\ s[i] <= hi})

\* C16: a duration d > 60 s is counted in exactly one of (60,300],
\* (300,900], (900,3600], (3600,14400], (14400,inf) and a duration <= 60 s
\* in none; the five counts add up to the number of durations above 60 s,
\* while flight_time is the sum of all durations, short ones included.
C16_HalfOpenBuckets ==
    BoutsReturned =>
        /\ stats.events_300 = InRangeCount(BoutDurations(time_n), 6000, 30000)
        /\ stats.events_900 = InRangeCount(BoutDurations(time_n), 30000, 90000)
        /\ stats.events_3600 = InRangeCount(BoutDurations(time_n), 90000, 360000)
        /\ stats.events_14400 = InRangeCount(BoutDurations(time_n), 360000, 1440000)
        /\ stats.events_more_14400 =
              Cardinality({i \in 1..Len(BoutDurations(time_n)) :
                              BoutDurations(time_n)[i] > 1440000})
        /\ stats.events_300 + stats.events_900 + stats.events_3600
              + stats.events_14400 + stats.events_more_14400
           = Len(OverSixty(BoutDurations(time_n)))
        /\ stats.flight_time = SumSeq(BoutDurations(time_n))

C16_Witness ==
    /\ BoutsReturned
    /\ \E i \in 1..Len(BoutDurations(time_n)) : BoutDurations(time_n)[i] = 6000
    /\ \E i \in 1..Len(BoutDurations(time_n)) : BoutDurations(time_n)[i] = 30000
    /\ stats.events_300 = 1
    /\ stats.flight_time > 36000

\* the raw-event flags of the recording just standardized, their runs of
\* adjacent 1s (positions are 1-based: list index + 1)
StandardizedOk == AfterStandardize /\ err = "none" /\ Len(voltage_column) >= 1
InputFlags == ThresholdFlags(voltage_column, dev_min, dev_max)
RunStarts(flags) ==
    {a \in 1..Len(flags) : flags[a] = 1 /\ (a = 1 \/ flags[a - 1] = 0)}
RunEnd(flags, a) ==
    CHOOSE e \in a..Len(flags) :
        /\ \A i \in a..e : flags[i] = 1
        /\ e = Len(flags) \/ flags[e + 1] = 0

\* C13 (as claimed): an event whose start lies more than merge_window
\* samples after the start of every earlier event is never removed on
\* account of an earlier one: the trough at its first index is kept.  (The
\* first seven indices and the last one are left aside: there the
\* lookbacks wrap around to later samples, and the last index is never
\* scanned.)
C13_FarEventsNeverMerged ==
    (StandardizedOk /\ Len(trough_column) = Len(voltage_column)) =>
        \A b \in RunStarts(InputFlags) :
            ( /\ b >= 8 /\ b <= Len(InputFlags) - 1
              /\ \A a \in RunStarts(InputFlags) : a < b => b - a > sample_rate )
            => trough_column[b] = 1

\* C20 (as claimed): each maximal run of adjacent 1s in the raw-event flags
\* yields at most one 1 in the output, and when it yields one it is at the
\* first index of the run.
C20_RunYieldsFirstIndexOnly ==
    (StandardizedOk /\ Len(trough_column) = Len(voltage_column)) =>
        \A a \in RunStarts(InputFlags) :
            /\ Cardinality({i \in a..RunEnd(InputFlags, a) : trough_column[i] = 1}) <= 1
            /\ \A i \in a..RunEnd(InputFlags, a) : trough_column[i] = 1 => i = a

\* the plausible positions in order, and their times
PlausiblePositions == SortedSet(InRangePositions)
PlausibleTimes == [k \in 1..Len(PlausiblePositions) |-> time_channel[PlausiblePositions[k]]]

\* C17: the average speed is the arithmetic mean of exactly the speeds
\* returned in filtered_speeds, and 0 whenever that list is empty.
C17_AverageIsMeanOfReturned ==
    AfterDistance =>
        av_speed = IF speed_n = <<>> THEN RInt(0)
                   ELSE RNorm(<<RSum(speed_n)[1], RSum(speed_n)[2] * Len(speed_n)>>)

C17_Witness ==
    /\ pc = "flying_bouts"
    /\ Len(speed_n) >= 2
    /\ Len(speed_n) < Len(PlausiblePositions)
    /\ \E k \in 2..Len(speed_n) : speed_n[k] # speed_n[1]
    /\ RLt(RInt(0), av_speed)

AfterTimeList == pc \in {"speed_list", "distance", "flying_bouts", "done"}
Ones == {i \in 1..Len(trough_column) : trough_column[i] = 1}
Rank(i) == Cardinality({j \in Ones : j <= i})

\* C18: time_list returns the times at the rows flagged 1, in row order
\* and nothing else (as many entries as there are 1s, none when there is
\* no 1); two returned times are in strictly increasing order whenever the
\* time column is strictly increasing between their rows.
C18_TimesAtFlaggedRows ==
    AfterTimeList =>
        /\ Len(time_channel) = Cardinality(Ones)
        /\ \A i \in Ones : time_channel[Rank(i)] = time_column[i]
        /\ \A i, j \in Ones :
              (i < j /\ \A m \in i..(j - 1) : time_column[m] < time_column[m + 1])
              => time_channel[Rank(i)] < time_channel[Rank(j)]

C18_Witness ==
    /\ pc = "speed_list"
    /\ Len(time_channel) >= 3
    /\ Len(time_channel) < Len(time_column)
    /\ trough_column[1] = 1 /\ trough_column[2] = 0
    /\ \A k \in 1..(Len(time_channel) - 1) : time_channel[k] < time_channel[k + 1]

GapFilterRan == AfterDistance /\ Len(time_channel) >= 3 /\ Len(PlausiblePositions) >= 3
KeptAfterShortGap ==
    SortedSet({k \in 1..Len(PlausibleTimes) :
                  k = 1 \/ PlausibleTimes[k] - PlausibleTimes[k - 1] <= 700})

\* C19 (as claimed): of the plausible pairs p[0..m-1], m >= 3, the first is
\* retained, and a later pair p[k] is retained exactly when the gap to the
\* next plausible pair p[k+1] is at most 7 s.
C19_KeptWhenNextIsNear ==
    GapFilterRan =>
        /\ PlausibleTimes[1] \in Elements(time_n)
        /\ \A k \in 2..(Len(PlausibleTimes) - 1) :
              PlausibleTimes[k] \in Elements(time_n)
              <=> PlausibleTimes[k + 1] - PlausibleTimes[k] <= 700

\* C19 (amended): of the plausible pairs p[0..m-1], m >= 3, the first is
\* retained, and a later pair p[k] is retained exactly when the gap from
\* the previous plausible pair p[k-1] is at most 7 s; the retained pairs
\* keep their order.
C19_KeptWhenPreviousIsNear ==
    GapFilterRan =>
        /\ time_n = [j \in 1..Len(KeptAfterShortGap) |->
                        PlausibleTimes[KeptAfterShortGap[j]]]
        /\ speed_n = [j \in 1..Len(KeptAfterShortGap) |->
                        speed_channel[PlausiblePositions[KeptAfterShortGap[j]]]]

C19_Witness ==
    /\ pc = "flying_bouts"
    /\ GapFilterRan
    /\ Len(time_n) >= 3
    /\ \E k \in 2..(Len(PlausibleTimes) - 1) :
          /\ PlausibleTimes[k] - PlausibleTimes[k - 1] <= 700
          /\ PlausibleTimes[k + 1] - PlausibleTimes[k] > 700
          /\ PlausibleTimes[k] \in Elements(time_n)
          /\ PlausibleTimes[k + 1] \notin Elements(time_n)

\* The raw flags as they stand when list index j is examined.  FlagAt reads
\* a list index, a negative one counted from the end; a rising edge at j
\* is downgraded when a flag 3, 5 or 7 places back is set, and a downgrade
\* clears the flags of the w indices from j on.
FlagAt(f, i) == f[IF i >= 0 THEN i + 1 ELSE Len(f) + i + 1]
RisingEdge(f, j) == FlagAt(f, j) = 1 /\ FlagAt(f, j - 1) = 0
BounceSeen(f, j) == \E k \in {3, 5, 7} : j - k >= -Len(f) /\ FlagAt(f, j - k) = 1
Downgrade(f, j) == RisingEdge(f, j) /\ BounceSeen(f, j)
AfterExamining(f, j, w) ==
    IF Downgrade(f, j)
    THEN [i \in 1..Len(f) |-> IF j <= i - 1 /\ i - 1 < j + w THEN 0 ELSE f[i]]
    ELSE f
RECURSIVE ExaminedFlags(_, _, _)
ExaminedFlags(f, j, w) ==
    IF j = 0 THEN f ELSE AfterExamining(ExaminedFlags(f, j - 1, w), j - 1, w)
FlagsAt(j) == ExaminedFlags(InputFlags, j, sample_rate)
\* trough_standardization has just returned its list
StandardizeOutput ==
    pc = "time_list" /\ err = "none" /\ Len(trough_column) = Len(voltage_column)
\* the rule for index j, on the flags f examined there and the output there
RuleAt(f, j, out) ==
    /\ out = 1 <=> /\ FlagAt(f, j) = 1
                   /\ FlagAt(f, j - 1) = 0
                   /\ \A k \in {3, 5, 7} : FlagAt(f, j - k) # 1
    /\ Downgrade(f, j) => out = 0

\* C21: for every list index j with 7 <= j <= n-2 the output is 1 at j
\* exactly when, on the flags as they stand when j is examined, the flag at
\* j is 1, the flag at j-1 is 0 and none of the flags at j-3, j-5, j-7 is
\* 1; a rising edge with one of these three set gives 0.
C21_DoubleTroughRule ==
    StandardizeOutput =>
        \A j \in 7..(Len(trough_column) - 2) :
            RuleAt(FlagsAt(j), j, trough_column[j + 1])

C21_Witness ==
    /\ pc = "time_list"
    /\ StandardizeOutput
    /\ \E j \in 7..(Len(trough_column) - 2) : Downgrade(FlagsAt(j), j)
    /\ \E j \in 7..(Len(trough_column) - 2) :
          trough_column[j + 1] = 1 /\ FlagsAt(j) # InputFlags

\* the list indices at which a candidate was downgraded
RECURSIVE DowngradeScan(_, _, _, _)
DowngradeScan(f, j, w, seen) ==
    IF j > Len(f) - 2 THEN seen
    ELSE DowngradeScan(AfterExamining(f, j, w), j + 1, w,
                       IF Downgrade(f, j) THEN seen \cup {j} ELSE seen)
DowngradedAt == DowngradeScan(InputFlags, 0, sample_rate, {})
InWindowOf(j, i) == j <= i /\ i < j + sample_rate
\* the window rule for the downgrades at the indices down, on input flags f
WindowRule(down, f) ==
    /\ \A j \in down :
          \A i \in 0..(Len(trough_column) - 1) :
              InWindowOf(j, i) => trough_column[i + 1] = 0
    /\ \A i \in 0..(Len(raw_flags) - 1) :
          raw_flags[i + 1] = IF \E j \in down : InWindowOf(j, i) THEN 0 ELSE f[i + 1]
\* a downgrade whose window runs past the end of a list with flags left to
\* clear, and a flag that outlives a downgrade before it
WindowCase(down, f) ==
    /\ \E j \in down :
          /\ j + sample_rate > Len(trough_column)
          /\ \E i \in (j + 1)..(Len(trough_column) - 1) : f[i + 1] = 1
    /\ \E j \in down :
          \E i \in (j + sample_rate)..(Len(raw_flags) - 1) : raw_flags[i + 1] = 1

\* C22: when a candidate at j is downgraded with merge window w >= 1, the
\* output is 0 at every index of [j, min(j+w-1, n-1)]; the flags from j+w
\* on are left as they were (a flag of the returned recording is cleared
\* only inside the window of a downgrade); a window running past the end
\* of the list is clipped and raises no error (with n >= 7 no lookback can
\* raise either, so no IndexError is left).
C22_SuppressionWindow ==
    /\ (StandardizeOutput /\ sample_rate >= 1) =>
          WindowRule(DowngradedAt, InputFlags)
    /\ (pc = "crashed" /\ Len(voltage_column) >= 7) => err # "IndexError"

C22_Witness ==
    /\ StandardizeOutput
    /\ sample_rate >= 1
    /\ WindowCase(DowngradedAt, InputFlags)

\* the rule at an index j < 7, whose lookbacks are read from the end
WrappedRuleAt(f, j, out) == out = 1 <=> (RisingEdge(f, j) /\ ~BounceSeen(f, j))

\* C23 (as claimed): for every length n >= 2 trough_standardization
\* returns normally whatever rising edge lies at an index j < 7, reading
\* each negative position j-k at n+j-k: index 0 is compared with the last
\* flag and the lookbacks with flags at the end of the list.
C23_WrapAroundReturns ==
    /\ (pc = "crashed" /\ Len(voltage_column) >= 2) => err # "IndexError"
    /\ StandardizeOutput =>
          \A j \in 0..(Len(trough_column) - 2) :
              j < 7 => WrappedRuleAt(FlagsAt(j), j, trough_column[j + 1])

\* C27: the output never has 1 at two indices that are 1, 3, 5 or 7 apart;
\* in particular it has no two adjacent 1s.
C27_NoTwoTroughsAtLookbackDistance ==
    StandardizeOutput =>
        \A i \in 1..Len(trough_column) :
            trough_column[i] = 1 =>
                \A k \in {1, 3, 5, 7} :
                    i + k <= Len(trough_column) => trough_column[i + k] # 1

C27_Witness ==
    /\ StandardizeOutput
    /\ \E i \in 1..(Len(trough_column) - 4) :
          trough_column[i] = 1 /\ trough_column[i + 4] = 1
    /\ \E j \in DowngradedAt : j >= 7

\* time between trough i-1 and trough i, in 1/100 s
Interval(i) == time_channel[i] - time_channel[i - 1]

\* C24: for >= 3 trough times the speed list starts with 0 and has, at
\* each later position, 9999 for a repeated timestamp and otherwise the
\* flight path over the interval, set to 0 when that is below 0.1; a
\* repeated timestamp raises no division error.
C24_IntervalSpeedsWithSentinel ==
    (AfterSpeedList /\ Len(time_channel) >= 3) =>
        /\ pc \in {"distance", "flying_bouts"} => err = "none"
        /\ Len(speed_channel) = Len(time_channel)
        /\ speed_channel[1] = <<0, 1>>
        /\ \A i \in 2..Len(time_channel) :
              IF Interval(i) = 0 THEN speed_channel[i] = <<9999, 1>>
              ELSE IF 10 * flight_path < 100 * Interval(i)
                   THEN speed_channel[i] = <<0, 1>>
                   ELSE speed_channel[i][1] * 100 * Interval(i)
                            = flight_path * speed_channel[i][2]

C24_Witness ==
    /\ pc = "distance"
    /\ Len(time_channel) >= 4
    /\ \E i \in 2..Len(time_channel) :
          Interval(i) = 0 /\ speed_channel[i] = <<9999, 1>>
    /\ \E i \in 2..Len(time_channel) : speed_channel[i] = <<6283, 20000>>
    /\ \E i \in 2..Len(time_channel) : Interval(i) > 0 /\ speed_channel[i] = <<0, 1>>

\* the durations the pairing rule gives for ascending markers b
RuleDurations(b) ==
    IF Len(b) % 2 = 0
    THEN [k \in 1..(Len(b) \div 2) |-> b[2 * k] - b[2 * k - 1]]
    ELSE [k \in 1..((Len(b) + 1) \div 2) |->
             IF k <= (Len(b) - 1) \div 2 THEN b[2 * k] - b[2 * k - 1]
             ELSE b[Len(b)] - b[Len(b) - 1]]
ScenarioC == <<0, 500, 1000, 4000, 4500, 5000>>

\* C25: with the de-duplicated ascending markers b0 < ... < b(m-1) the
\* durations are b1-b0, b3-b2, ... and, for odd m, one more duration
\* b(m-1) - b(m-2); flight_time and longest_bout are their sum and
\* maximum.  For times [0,5,10,40,45,50] the durations are [10, 10] and
\* flight_time is 20.
C25_MarkerPairing ==
    BoutsReturned =>
        /\ \A k \in 1..(Len(BoutMarkers(time_n)) - 1) :
              BoutMarkers(time_n)[k] < BoutMarkers(time_n)[k + 1]
        /\ BoutDurations(time_n) = RuleDurations(BoutMarkers(time_n))
        /\ stats.flight_time = SumSeq(RuleDurations(BoutMarkers(time_n)))
        /\ stats.longest_bout = MaxSeq(RuleDurations(BoutMarkers(time_n)))
        /\ time_n = ScenarioC =>
              /\ BoutDurations(time_n) = <<1000, 1000>>
              /\ stats.flight_time = 2000

C25_Witness ==
    /\ BoutsReturned
    /\ time_n = ScenarioC
    /\ stats.flight_time = 2000
    /\ stats.longest_bout = 1000

\* C28: for >= 3 strictly increasing filtered times flight_time is at most
\* time[last] - time[first], so the flying fraction is at most 1 whenever
\* the recording lasts at least that long.
C28_FlightTimeWithinSpan ==
    BoutsReturned =>
        /\ stats.flight_time <= time_n[Len(time_n)] - time_n[1]
        /\ tot_duration >= time_n[Len(time_n)] - time_n[1]
              => ~RLt(RInt(1), stats.fly_time)

C28_Witness ==
    /\ BoutsReturned
    /\ stats.flight_time = time_n[Len(time_n)] - time_n[1]
    /\ Len(BoutDurations(time_n)) >= 2
    /\ tot_duration = time_n[Len(time_n)] - time_n[1]
    /\ stats.fly_time = RInt(1)

\* the graph lists as claimed: every input pair in order, the two
\* zero-speed points after pair i when the next time is more than 20 s
\* later, and one final (0, 0)
RECURSIVE ClaimedPoints(_, _, _)
ClaimedPoints(time, speed, i) ==
    IF i > Len(time) THEN <<>>
    ELSE IF i < Len(time) /\ time[i + 1] - time[i] > 2000
         THEN <<<<time[i], speed[i]>>, <<time[i] + 100, <<0, 1>>>>,
                <<time[i + 1] - 100, <<0, 1>>>>>>
              \o ClaimedPoints(time, speed, i + 1)
         ELSE <<<<time[i], speed[i]>>>> \o ClaimedPoints(time, speed, i + 1)
GraphPairs == [k \in 1..Len(time_graph) |-> <<time_graph[k], speed_graph[k]>>]

\* C26 (as claimed): graph returns two lists of equal length holding every
\* input (time, speed) pair in input order, with (time[i]+1, 0) and
\* (time[i+1]-1, 0) between pair i and pair i+1 exactly when
\* time[i+1] - time[i] > 20, and one final (0, 0); ([0], [0]) for empty
\* input.
C26_GraphKeepsEveryPair ==
    pc = "summary" =>
        /\ Len(time_graph) = Len(speed_graph)
        /\ GraphPairs = ClaimedPoints(time_n, speed_n, 1) \o <<<<0, <<0, 1>>>>>>

ParentExit == parent_pc = "exit"
AllPut == \A w \in 1..NumSets : worker[w] = "ended"
SomeFailed == \E w \in 1..NumSets : worker[w] = "failed"
ParentBlocked ==
    \/ parent_pc = "get_rows" /\ qout = <<>>
    \/ parent_pc = "get_combos" /\ qbig = <<>>
OncePerSet(file) ==
    /\ Len(file) = NumSets
    /\ \A w \in 1..NumSets : Cardinality({k \in 1..Len(file) : file[k] = w}) = 1
\* the collection is over: K gets per queue, every set written once
Collected ==
    /\ collected = NumSets
    /\ qout = <<>> /\ qbig = <<>>
    /\ OncePerSet(summary_file) /\ OncePerSet(combos_file)

\* C29: with one worker started per set, once every worker has put its
\* item on each queue the parent comes to its end, and at its end it has
\* done exactly K gets per queue and written every worker's summary rows
\* once and every worker's combos once (rows and combos of one iteration
\* may be of different sets); if a worker ends without putting, the parent
\* never comes to its end and stays blocked on a get for ever.
C29_ParentCollectsEachSetOnce ==
    /\ [](ParentExit => Collected)
    /\ AllPut ~> ParentExit
    /\ [](SomeFailed => ~ParentExit)
    /\ SomeFailed ~> [](ParentBlocked)

C29_Witness ==
    /\ ParentExit
    /\ AllPut
    /\ Collected
    /\ \E k \in 1..NumSets : summary_file[k] # combos_file[k]

\* the digits a marker shows first, read off the marker itself
NamedBug(row) == SearchNumber(row.event_marker)
\* a row whose event number, as recorded, is not zero
NonZeroEvent(row) == ~row.header /\ row.event_num # 0
\* a false event marker: event number 1 recorded with event_happened 3
FalseMarker(row) == row.event_num = 1 /\ row.event_happened = 3
\* a row that carries an event: a non-zero number that is no false marker
CarriesEvent(row) == NonZeroEvent(row) /\ ~FalseMarker(row)
FirstDataRow(f) == CHOOSE k \in 1..Len(f) : ~f[k].header /\ \A m \in 1..(k - 1) : f[m].header
\* the bugs the datasheet maps to channel c
MappedTo(c) ==
    {Datasheet[k].ID : k \in {m \in 1..Len(Datasheet) :
                                ~Datasheet[m].died /\ Datasheet[m].channel = c}}
\* of the rows in counted, those after the first and up to row t whose
\* marker names a bug of channel c
EventsFor(counted, f, c, t) ==
    {k \in counted : /\ k > FirstDataRow(f)
                     /\ k <= t
                     /\ NamedBug(f[k]) \in MappedTo(c)}
LastOf(S) == CHOOSE k \in S : \A m \in S : m <= k
FirstOccupant(c) ==
    Datasheet[CHOOSE k \in 1..Len(Datasheet) :
                /\ ~Datasheet[k].died /\ Datasheet[k].channel = c
                /\ \A m \in 1..(k - 1) : Datasheet[m].died \/ Datasheet[m].channel # c].ID
Written == map_pc = "written"
\* every written row lists, per channel, the first occupant or the bug of
\* the latest counted event of that channel
OccupancyRule(counted) ==
    \A r \in 1..Len(output_file) : \A c \in 1..4 :
        LET ev == EventsFor(counted, file_rows, c, output_file[r].TBF)
        IN  output_file[r].bugs[c] =
                IF ev = {} THEN FirstOccupant(c)
                ELSE NamedBug(file_rows[LastOf(ev)])
\* from one written row to the next at most one channel changes its bug
OneChannelPerRow ==
    \A r \in 1..(Len(output_file) - 1) :
        Cardinality({c \in 1..4 :
            output_file[r].bugs[c] # output_file[r + 1].bugs[c]}) <= 1

====
